---- MODULE Spec2Model ----
(***************************************************************************)
(* Model of gc.c (hacker-lang Unified Memory v2.0): part [A], the          *)
(* generational garbage collector, and part [B], the arena allocator.      *)
(* The two parts share no state; Spec runs the callers of the collector    *)
(* and SpecArena those of one arena.                                       *)
(*                                                                         *)
(* Every byte quantity of the collector is a multiple of SLAB_ALIGN: the   *)
(* header (16 bytes), every aligned payload, the nursery capacity and the  *)
(* old threshold.  The model counts them in words of SLAB_ALIGN bytes, so  *)
(* that a request of 2^32 bytes and the 32-bit size field stay inside the  *)
(* integers TLC evaluates.  A request (size_t size) is the pair            *)
(* [q, r] with size = SLAB_ALIGN * q + r and 0 <= r < SLAB_ALIGN.          *)
(*                                                                         *)
(* The arena counts in bytes.  A chunk is named by a fresh identity, its   *)
(* cursor top is the offset top - base.  The chunks that are mapped are    *)
(* the domain of chunks; munmap removes a chunk from it.                   *)
(***************************************************************************)
EXTENDS Integers, Sequences, FiniteSets

(* ---------------------------------------------------------------- *)
(* Configuration of gc.c                                            *)
(* ---------------------------------------------------------------- *)
SLAB_ALIGN == 8
YOUNG_SIZE == 65536
OLD_THRESHOLD == 2097152
TENURING_AGE == 2
\* sizeof(GcHeader): uint32 + 4 * uint8 + one pointer, on an LP64 target
HDR_SIZE == 16
\* range of the uint32_t size field, in words: 2^32 / SLAB_ALIGN
SIZE_FIELD_RANGE == 536870912
\* range of the uint8_t age field
AGE_FIELD_RANGE == 256

ARENA_DEFAULT_ALIGN == 8
\* the page arena_new_chunk rounds a capacity up to
PAGE_SIZE == 4096

HdrWords == HDR_SIZE \div SLAB_ALIGN
YoungWords == YOUNG_SIZE \div SLAB_ALIGN
OldThresholdWords == OLD_THRESHOLD \div SLAB_ALIGN

(* ---------------------------------------------------------------- *)
(* Bounds of the model                                              *)
(* ---------------------------------------------------------------- *)
\* allocation calls (malloc and allocOld together) in one behaviour
MaxAllocs == 2
\* sweep() and collectFull() calls are enabled while minor_count is below
MaxMinor == 2
\* allocation calls are enabled while old_used stays at or below (words)
MaxOldUsed == 540000000

\* chunks mapped in one behaviour of the arena
MaxChunks == 3
\* arena allocations are enabled while total_allocs is below
MaxArenaAllocs == 3
\* the same, for the callers that only fill an arena
MaxFillAllocs == 10
\* savepoints the caller of the arena takes in one behaviour
MaxSaved == 2
\* allocations replayed after a restore
MaxReplay == 2

\* a request of n bytes, n below 2^31
Bytes(n) == [q |-> n \div SLAB_ALIGN, r |-> n % SLAB_ALIGN]
\* the request sizes the callers draw from:
\*   0 (coerced to 1 by gc_malloc, taken as it is by gc_alloc_old), 65520
\*   (header + payload = the whole nursery), 65536 (never fits the nursery),
\*   100 (rounded up to 104), 2097136 (header + payload = OLD_THRESHOLD
\*   exactly) and 2^32 (beyond the 32-bit size field)
MallocSizes == { Bytes(0), Bytes(65520), Bytes(65536) }
OldSizes == { Bytes(0), Bytes(100), Bytes(2097136), [q |-> SIZE_FIELD_RANGE, r |-> 0] }

\* what the callers of the arena draw from: the initial sizes (a chunk of
\* capacity 0 is full from the start; 100 is rounded up to a page), the
\* sizes of alloc (0 is refused;
\* 3000 lies between half of 4096 and 4096; 5000 is beyond it; ten of 500
\* overflow a 4096-byte chunk), the size of alloc_zeroed, and the bytes
\* readable at a string
InitSizes == { 4096 }
SmallInitSizes == { 0, 100, 4096 }
AllocSizes == { 0, 3000, 5000 }
FillSizes == { 500, 3000, 5000 }
ZeroedSizes == { 16 }
ReplaySizes == { 3000, 5000 }
Strs == { [null |-> FALSE, mem |-> <<104, 105, 0>>],
          [null |-> FALSE, mem |-> <<97, 0, 98>>] }
\* what a read through a null pointer does
UBs == { "segv", "wild" }

(* ---------------------------------------------------------------- *)
(* State                                                            *)
(* ---------------------------------------------------------------- *)
VARIABLES
    young_slab,   \* the headers in [young_slab, young_top), in address order
    young_top,    \* young_top - young_slab, in words
    old_list,     \* the old list, head first
    old_used,     \* in words
    old_allocs,
    gc_stats,
    next_id,      \* identity (payload contents) given to the next allocation
    call,         \* the last call of the public API and its inputs
    ret           \* the pointer the last call returned (NULL: none)

VARIABLES
    arena,        \* the Arena: head, first, chunk_size, total_allocs, total_bytes
    chunks,       \* the mapped ArenaChunks: top (from base), cap, next
    next_chunk,   \* identity of the next chunk mmap returns
    saved,        \* the ArenaSavepoints the caller has taken
    acall,        \* the last call of the arena API and its inputs
    aret,         \* the pointer the last arena call returned
    stored,       \* the bytes the last arena call wrote at that pointer
    fault         \* the process was killed by a read through a null pointer

VARIABLES
    pc,           \* where the collector is: "idle" between calls, "minor" or
                  \* "major" inside the loop of a collection
    walk,         \* the locals of the collection in progress
    held          \* the pointers gc_malloc returned, as the caller keeps them

gcvars == <<young_slab, young_top, old_list, old_used, old_allocs, gc_stats,
            next_id, call, ret>>
avars == <<arena, chunks, next_chunk, saved, acall, aret, stored, fault>>
xvars == <<pc, walk, held>>
vars == <<gcvars, avars, xvars>>

\* the arena's variables as one record, for the functions of part [B]
AR == [arena |-> arena, chunks |-> chunks, next_chunk |-> next_chunk,
       ret |-> aret, stored |-> stored, fault |-> fault]

\* the collector's variables as one record, for the functions below
GC == [young_slab |-> young_slab, young_top |-> young_top,
       old_list |-> old_list, old_used |-> old_used,
       old_allocs |-> old_allocs, gc_stats |-> gc_stats,
       next_id |-> next_id, ret |-> ret]

\* pointers: a header in the nursery is named by its offset, a node of the
\* heap by its identity
NULL == [space |-> "null", at |-> 0]
YoungPtr(off) == [space |-> "young", at |-> off]
HeapPtr(id) == [space |-> "heap", at |-> id]

\* ALIGN_UP(size, SLAB_ALIGN), in words
AlignUpWords(size) == size.q + (IF size.r > 0 THEN 1 ELSE 0)

\* HDR_SIZE + h->size, in words
ObjWords(h) == HdrWords + h.size

\* offset of the i-th header of a packed run of headers
RECURSIVE OffsetOf(_, _)
OffsetOf(slab, i) ==
    IF i <= 1 THEN 0 ELSE OffsetOf(slab, i - 1) + ObjWords(slab[i - 1])

(* ---------------------------------------------------------------- *)
(* gc_alloc_old_internal: ok is whether the heap's malloc succeeds  *)
(* ---------------------------------------------------------------- *)
\* variant: a node allocated in the old generation starts with age 0
gc_alloc_old_internal_Age0(s, size, ok) ==
    LET aligned == AlignUpWords(size)
        h == [id |-> s.next_id,
              size |-> aligned % SIZE_FIELD_RANGE,
              age |-> 0,
              marked |-> FALSE,
              generation |-> 1]
    IN  IF ~ok THEN [s EXCEPT !.ret = NULL]
        ELSE [s EXCEPT !.old_list = <<h>> \o @,
                       !.old_used = @ + HdrWords + aligned,
                       !.old_allocs = @ + 1,
                       !.next_id = @ + 1,
                       !.ret = HeapPtr(h.id)]

\* static void *gc_alloc_old_internal(size_t size)
gc_alloc_old_internal(s, size, ok) ==
    LET aligned == AlignUpWords(size)
        h == [id |-> s.next_id,
              size |-> aligned % SIZE_FIELD_RANGE,
              age |-> TENURING_AGE,
              marked |-> FALSE,
              generation |-> 1]
    IN  IF ~ok THEN [s EXCEPT !.ret = NULL]
        ELSE [s EXCEPT !.old_list = <<h>> \o @,
                       !.old_used = @ + HdrWords + aligned,
                       !.old_allocs = @ + 1,
                       !.next_id = @ + 1,
                       !.ret = HeapPtr(h.id)]

(* ---------------------------------------------------------------- *)
(* gc_collect_minor: fail is the set of objects whose promoting     *)
(* malloc returns NULL                                              *)
(* ---------------------------------------------------------------- *)
\* variant: every header is taken for marked
IsMarked_Always(h) == TRUE

\* if (h->marked)
IsMarked(h) == h.marked

\* h->age++
Aged(h) == [h EXCEPT !.age = (@ + 1) % AGE_FIELD_RANGE]

\* variant: promotion one collection late
Tenures_Late(h) == h.age > TENURING_AGE

\* if (h->age >= TENURING_AGE)
Tenures(h) == h.age >= TENURING_AGE

\* memcpy(oh, h, osz); oh->generation = 1: the promoted copy
PromotedCopy(h) == [h EXCEPT !.generation = 1]

\* variant: the survivor is flagged old
SurvivorCopy_Old(h) == [h EXCEPT !.generation = 1]

\* memcpy(sur, h, osz): the copy kept in the nursery
SurvivorCopy(h) == h

RECURSIVE minor_loop(_, _, _, _, _)
minor_loop(s, p, sur, sur_sz, fail) ==
    IF p > Len(s.young_slab)
    THEN [s EXCEPT !.young_slab = sur, !.young_top = sur_sz]
    ELSE
      LET h == s.young_slab[p]
          osz == ObjWords(h)
      IN
      IF IsMarked(h) THEN
        LET aged == Aged(h) IN
        IF Tenures(aged) THEN
          IF h.id \in fail
          THEN minor_loop(s, p + 1, sur, sur_sz, fail)
          ELSE minor_loop(
                 [s EXCEPT !.old_list = <<PromotedCopy(aged)>> \o @,
                           !.old_used = @ + osz,
                           !.old_allocs = @ + 1,
                           !.gc_stats.promoted = @ + 1],
                 p + 1, sur, sur_sz, fail)
        ELSE minor_loop(s, p + 1, Append(sur, SurvivorCopy(aged)), sur_sz + osz, fail)
      ELSE minor_loop([s EXCEPT !.gc_stats.collected_young = @ + 1],
                      p + 1, sur, sur_sz, fail)

\* variant: reclaimed nursery objects are not counted
gc_collect_minor_Uncounted(s, fail) ==
    LET t == minor_loop([s EXCEPT !.gc_stats.minor_count = @ + 1], 1, <<>>, 0, fail)
    IN  [t EXCEPT !.gc_stats.collected_young = s.gc_stats.collected_young]

\* static void gc_collect_minor(void)
gc_collect_minor(s, fail) ==
    minor_loop([s EXCEPT !.gc_stats.minor_count = @ + 1], 1, <<>>, 0, fail)

(* ---------------------------------------------------------------- *)
(* gc_collect_major                                                 *)
(* ---------------------------------------------------------------- *)
\* variant: the mark bit of a kept node is left set
Kept_StillMarked(h) == h

\* h->marked = 0, on a node the major collection keeps
Kept(h) == [h EXCEPT !.marked = FALSE]

RECURSIVE major_loop(_, _)
major_loop(s, i) ==
    IF i > Len(s.old_list) THEN s
    ELSE
      LET h == s.old_list[i] IN
      IF ~h.marked
      THEN major_loop(
             [s EXCEPT !.old_list = SubSeq(@, 1, i - 1) \o SubSeq(@, i + 1, Len(@)),
                       !.old_used = @ - (HdrWords + h.size),
                       !.old_allocs = @ - 1,
                       !.gc_stats.collected_old = @ + 1],
             i)
      ELSE major_loop([s EXCEPT !.old_list[i] = Kept(h)], i + 1)

gc_collect_major(s) ==
    major_loop([s EXCEPT !.gc_stats.major_count = @ + 1], 1)

(* ---------------------------------------------------------------- *)
(* Public API                                                       *)
(* ---------------------------------------------------------------- *)
\* variant: a request that ends exactly at young_end is refused
Fits_Strict(s, total) == s.young_top + total < YoungWords

\* young_top + total <= young_end
Fits(s, total) == s.young_top + total <= YoungWords

\* the bump allocation of gc_malloc
Bump(s, aligned) ==
    LET h == [id |-> s.next_id,
              size |-> aligned % SIZE_FIELD_RANGE,
              age |-> 0,
              marked |-> FALSE,
              generation |-> 0]
    IN  [s EXCEPT !.young_slab = Append(@, h),
                  !.young_top = @ + HdrWords + aligned,
                  !.next_id = @ + 1,
                  !.ret = YoungPtr(s.young_top)]

gc_malloc(s, size0, fail, ok) ==
    LET size == IF size0 = Bytes(0) THEN Bytes(1) ELSE size0
        aligned == AlignUpWords(size)
        total == HdrWords + aligned
        s0 == [s EXCEPT !.gc_stats.total_allocs = @ + 1]
    IN  IF Fits(s0, total) THEN Bump(s0, aligned)
        ELSE LET s1 == gc_collect_minor(s0, fail) IN
             IF Fits(s1, total) THEN Bump(s1, aligned)
             ELSE gc_alloc_old_internal(s1, size, ok)

\* variant: the request goes through the nursery first
gc_alloc_old_Young(s, size, ok) == gc_malloc(s, size, {}, ok)

\* variant: an allocation that leaves the old generation over the threshold
\* collects it
gc_alloc_old_Collecting(s, size, ok) ==
    LET s1 == gc_alloc_old_internal(s, size, ok) IN
    IF s1.old_used > OldThresholdWords
    THEN [gc_collect_major(s1) EXCEPT !.ret = s1.ret]
    ELSE s1

\* void* gc_alloc_old(size_t size)
gc_alloc_old(s, size, ok) == gc_alloc_old_internal(s, size, ok)

\* variant: marking is counted as an allocation
gc_mark_Counted(s, ptr) == [s EXCEPT !.gc_stats.total_allocs = @ + 1]

\* PTR_TO_HDR(ptr)->marked = 1, for a pointer to a header of the heap
gc_mark(s, ptr) ==
    IF ptr = NULL THEN s
    ELSE IF ptr.space = "young"
    THEN [s EXCEPT !.young_slab =
            [i \in 1..Len(@) |->
               IF OffsetOf(@, i) = ptr.at THEN [@[i] EXCEPT !.marked = TRUE]
               ELSE @[i]]]
    ELSE [s EXCEPT !.old_list =
            [i \in 1..Len(@) |->
               IF @[i].id = ptr.at THEN [@[i] EXCEPT !.marked = TRUE]
               ELSE @[i]]]

\* variant: the mark bit is flipped
Unmarked_Flipped(h) == [h EXCEPT !.marked = ~@]

\* h->marked = 0, in gc_unmark_all
Unmarked(h) == [h EXCEPT !.marked = FALSE]

gc_unmark_all(s) ==
    [s EXCEPT !.young_slab = [i \in 1..Len(@) |-> Unmarked(@[i])],
              !.old_list = [i \in 1..Len(@) |-> Unmarked(@[i])]]

\* variant: the threshold itself triggers the major collection
OverThreshold_AtOrOver(s) == s.old_used >= OldThresholdWords

\* if (old_used > OLD_THRESHOLD)
OverThreshold(s) == s.old_used > OldThresholdWords

\* variant: the threshold is tested before the minor collection
gc_sweep_Early(s, fail) ==
    LET s1 == gc_collect_minor(s, fail) IN
    IF OverThreshold(s) THEN gc_collect_major(s1) ELSE s1

\* void gc_sweep(void)
gc_sweep(s, fail) ==
    LET s1 == gc_collect_minor(s, fail) IN
    IF OverThreshold(s1) THEN gc_collect_major(s1) ELSE s1

\* variant: the major collection of collectFull waits for the threshold
gc_collect_full_Conditional(s, fail) ==
    [gc_sweep(s, fail) EXCEPT !.young_slab = <<>>, !.young_top = 0]

gc_collect_full(s, fail) ==
    LET s1 == gc_collect_minor(s, fail)
        s2 == gc_collect_major(s1)
    IN  [s2 EXCEPT !.young_slab = <<>>, !.young_top = 0]

(* ================================================================ *)
(* Part [B]: the arena allocator                                    *)
(* ================================================================ *)
ALIGN_UP_None(n, a) == n

\* ALIGN_UP(n, a) for a power of two a: (n + a - 1) & ~(a - 1)
ALIGN_UP(n, a) == ((n + a - 1) \div a) * a

\* pointers into the arena: a chunk and a byte offset from its base
ARENA_NULL == [chunk |-> 0, off |-> 0]
ArenaPtr(c, off) == [chunk |-> c, off |-> off]
\* what a read through a null ArenaChunk* may leave in a pointer
WildPtr == [chunk |-> -1, off |-> 0]

\* an ArenaSavepoint; {0} is the one arena_save gives without a head
Savepoint(c, top) == [head |-> c, top |-> top]
NoSavepoint == Savepoint(0, 0)

\* a const char *: null, or the bytes readable at the address
NullStr == [null |-> TRUE, mem |-> <<>>]

strlen_ToEnd(mem) == Len(mem) - 1

\* strlen: the index of the first NUL
strlen(mem) == (CHOOSE i \in 1..Len(mem) :
                  mem[i] = 0 /\ \A j \in 1..(i - 1) : mem[j] # 0) - 1

\* arena_new_chunk: ok is whether mmap succeeds; the chunk it returns is
\* NewChunk, named by the next fresh identity
NewChunk(s, ok) == IF ok THEN s.next_chunk ELSE 0

arena_new_chunk_Exact(s, size, ok) ==
    IF ~ok THEN s
    ELSE [s EXCEPT !.chunks = [x \in DOMAIN s.chunks \cup {s.next_chunk} |->
                                 IF x = s.next_chunk
                                 THEN [top |-> 0, cap |-> size, next |-> 0]
                                 ELSE s.chunks[x]],
                   !.next_chunk = @ + 1]

arena_new_chunk(s, size, ok) ==
    IF ~ok THEN s
    ELSE LET c == s.next_chunk
             aligned_size == ALIGN_UP(size, PAGE_SIZE) IN
         [s EXCEPT !.chunks = [x \in DOMAIN s.chunks \cup {c} |->
                                 IF x = c
                                 THEN [top |-> 0, cap |-> aligned_size, next |-> 0]
                                 ELSE s.chunks[x]],
                   !.next_chunk = c + 1]

arena_init(s, initial_size, ok) ==
    LET c == NewChunk(s, ok)
        s1 == arena_new_chunk(s, initial_size, ok) IN
    [s1 EXCEPT !.arena = [head |-> c, first |-> c, chunk_size |-> initial_size,
                          total_allocs |-> 0, total_bytes |-> 0],
               !.ret = ARENA_NULL, !.stored = <<>>]

HeadFits_FromBase(s, aligned) ==
    aligned <= s.chunks[s.arena.head].cap

\* c->top + aligned <= c->base + c->cap, for the head chunk c
HeadFits(s, aligned) ==
    s.chunks[s.arena.head].top + aligned <= s.chunks[s.arena.head].cap

Max(x, y) == IF x >= y THEN x ELSE y

NewCap_Max(s, aligned) == Max(s.arena.chunk_size, aligned * 2)

\* the capacity arena_alloc asks arena_new_chunk for
NewCap(s, aligned) ==
    IF aligned > s.arena.chunk_size THEN aligned * 2 ELSE s.arena.chunk_size

\* c->top read through a null head: the process is killed, or the read
\* yields garbage and a wild pointer comes back
NullDeref(s, ub) ==
    IF ub = "segv" THEN [s EXCEPT !.fault = TRUE, !.ret = ARENA_NULL]
    ELSE [s EXCEPT !.ret = WildPtr]

arena_alloc(s, size, ok, ub) ==
    IF size = 0 THEN [s EXCEPT !.ret = ARENA_NULL, !.stored = <<>>]
    ELSE
      LET aligned == ALIGN_UP(size, ARENA_DEFAULT_ALIGN)
          s1 == [s EXCEPT !.arena.total_allocs = @ + 1,
                          !.arena.total_bytes = @ + aligned,
                          !.stored = <<>>]
          c == s.arena.head
      IN
      IF c = 0 THEN NullDeref(s1, ub)
      ELSE IF HeadFits(s, aligned)
      THEN [s1 EXCEPT !.chunks[c].top = @ + aligned,
                      !.ret = ArenaPtr(c, s.chunks[c].top)]
      ELSE
        LET nc == NewChunk(s1, ok)
            s2 == arena_new_chunk(s1, NewCap(s, aligned), ok) IN
        IF nc = 0 THEN [s1 EXCEPT !.ret = ARENA_NULL]
        ELSE [s2 EXCEPT !.chunks[nc].next = c,
                        !.chunks[nc].top = aligned,
                        !.arena.head = nc,
                        !.ret = ArenaPtr(nc, 0)]

\* memset(p, 0, size)
Zeros(size) == [i \in 1..size |-> 0]

arena_alloc_zeroed(s, size, ok, ub) ==
    LET s1 == arena_alloc(s, size, ok, ub) IN
    IF s1.ret # ARENA_NULL /\ ~s1.fault
    THEN [s1 EXCEPT !.stored = Zeros(size)] ELSE s1

arena_strdup(s, str, ok, ub) ==
    IF str.null THEN [s EXCEPT !.ret = ARENA_NULL, !.stored = <<>>]
    ELSE
      LET len == strlen(str.mem) + 1
          s1 == arena_alloc(s, len, ok, ub) IN
      IF s1.ret # ARENA_NULL /\ ~s1.fault
      THEN [s1 EXCEPT !.stored = SubSeq(str.mem, 1, len)] ELSE s1

arena_strndup(s, str, n, ok, ub) ==
    IF str.null THEN [s EXCEPT !.ret = ARENA_NULL, !.stored = <<>>]
    ELSE
      LET s1 == arena_alloc(s, n + 1, ok, ub) IN
      IF s1.ret = ARENA_NULL \/ s1.fault THEN s1
      ELSE [s1 EXCEPT !.stored = SubSeq(str.mem, 1, n) \o <<0>>]

\* the chunks a loop `while (c && c != stop)` visits from c along next
RECURSIVE Walk(_, _, _)
Walk(ch, c, stop) ==
    IF c = 0 \/ c = stop THEN <<>>
    ELSE <<c>> \o Walk(ch, ch[c].next, stop)

\* munmap of each chunk of a walk
Unmap(ch, walked) ==
    [x \in DOMAIN ch \ { walked[i] : i \in DOMAIN walked } |-> ch[x]]

arena_reset_Leaky(s) ==
    [s EXCEPT !.arena.head = s.arena.first,
              !.arena.total_allocs = 0,
              !.arena.total_bytes = 0,
              !.ret = ARENA_NULL, !.stored = <<>>]

\* variant: the head is left on a released chunk
arena_reset_KeepsHead(s) ==
    LET first == s.arena.first
        ch1 == Unmap(s.chunks, Walk(s.chunks, s.arena.head, first))
        ch2 == IF first # 0
               THEN [ch1 EXCEPT ![first].top = 0, ![first].next = 0]
               ELSE ch1 IN
    [s EXCEPT !.chunks = ch2,
              !.arena.total_allocs = 0,
              !.arena.total_bytes = 0,
              !.ret = ARENA_NULL, !.stored = <<>>]

\* void arena_reset(Arena *a)
arena_reset(s) ==
    LET first == s.arena.first
        ch1 == Unmap(s.chunks, Walk(s.chunks, s.arena.head, first))
        ch2 == IF first # 0
               THEN [ch1 EXCEPT ![first].top = 0, ![first].next = 0]
               ELSE ch1 IN
    [s EXCEPT !.chunks = ch2,
              !.arena.head = first,
              !.arena.total_allocs = 0,
              !.arena.total_bytes = 0,
              !.ret = ARENA_NULL, !.stored = <<>>]

arena_free_KeepsFirst(s) ==
    [s EXCEPT !.chunks = Unmap(s.chunks, Walk(s.chunks, s.arena.head, s.arena.first)),
              !.arena = [head |-> 0, first |-> 0, chunk_size |-> 0,
                         total_allocs |-> 0, total_bytes |-> 0],
              !.ret = ARENA_NULL, !.stored = <<>>]

arena_free(s) ==
    [s EXCEPT !.chunks = Unmap(s.chunks, Walk(s.chunks, s.arena.head, 0)),
              !.arena = [head |-> 0, first |-> 0, chunk_size |-> 0,
                         total_allocs |-> 0, total_bytes |-> 0],
              !.ret = ARENA_NULL, !.stored = <<>>]

arena_save(s) ==
    IF s.arena.head # 0
    THEN Savepoint(s.arena.head, s.chunks[s.arena.head].top)
    ELSE NoSavepoint

arena_restore_NoRewind(s, sp) ==
    IF sp.head = 0 THEN [s EXCEPT !.ret = ARENA_NULL, !.stored = <<>>]
    ELSE [s EXCEPT !.chunks = Unmap(s.chunks, Walk(s.chunks, s.arena.head, sp.head)),
                   !.arena.head = sp.head,
                   !.ret = ARENA_NULL, !.stored = <<>>]

arena_restore_NoRelease(s, sp) ==
    IF sp.head = 0 THEN [s EXCEPT !.ret = ARENA_NULL, !.stored = <<>>]
    ELSE [s EXCEPT !.chunks[sp.head].top = sp.top,
                   !.arena.head = sp.head,
                   !.ret = ARENA_NULL, !.stored = <<>>]

arena_restore(s, sp) ==
    IF sp.head = 0 THEN [s EXCEPT !.ret = ARENA_NULL, !.stored = <<>>]
    ELSE
      LET ch1 == Unmap(s.chunks, Walk(s.chunks, s.arena.head, sp.head)) IN
      [s EXCEPT !.chunks = [ch1 EXCEPT ![sp.head].top = sp.top],
                !.arena.head = sp.head,
                !.ret = ARENA_NULL, !.stored = <<>>]

\* arena_stats_print: the chunks and the capacity it counts from head
ChunkCount(s) == Len(Walk(s.chunks, s.arena.head, 0))

(* ---------------------------------------------------------------- *)
(* The callers                                                      *)
(* ---------------------------------------------------------------- *)
Range(f) == { f[i] : i \in DOMAIN f }

\* the nursery objects a minor collection would promote
Tenuring(slab) ==
    { h.id : h \in { x \in Range(slab) : IsMarked(x) /\ Tenures(Aged(x)) } }

\* the pointers a caller holds to headers that are live now
LivePtrs ==
    { YoungPtr(OffsetOf(young_slab, i)) : i \in 1..Len(young_slab) }
    \cup { HeapPtr(old_list[i].id) : i \in 1..Len(old_list) }

\* a call: its name, the size requested, and the outcome of the heap's
\* malloc calls it makes (fail: the promotions refused; ok: the old node)
Call(op, size, fail, ok) ==
    [op |-> op, size |-> size, fail |-> fail, ok |-> ok]

\* the locals of a collection: the cursor p of the nursery walk (in words
\* from young_slab), the survivor buffer sur and its fill sur_sz, the
\* position i of pp in the old list, the nodes the major loop has looked at,
\* and the collector as it was when the call was made
NoWalk == [p |-> 0, sur |-> <<>>, sur_sz |-> 0, i |-> 1, seen |-> <<>>, from |-> <<>>]

\* a function returning void leaves no pointer behind
Void(s) == [s EXCEPT !.ret = NULL]

Assigns(s) ==
    /\ young_slab' = s.young_slab
    /\ young_top' = s.young_top
    /\ old_list' = s.old_list
    /\ old_used' = s.old_used
    /\ old_allocs' = s.old_allocs
    /\ gc_stats' = s.gc_stats
    /\ next_id' = s.next_id
    /\ ret' = s.ret

\* a call that runs from entry to return in one step
Becomes(s) ==
    /\ Assigns(s)
    /\ UNCHANGED avars
    /\ UNCHANGED xvars

Init ==
    /\ young_slab = <<>>
    /\ young_top = 0
    /\ old_list = <<>>
    /\ old_used = 0
    /\ old_allocs = 0
    /\ gc_stats = [minor_count |-> 0, major_count |-> 0, promoted |-> 0,
                   collected_young |-> 0, collected_old |-> 0,
                   total_allocs |-> 0]
    /\ next_id = 1
    /\ call = Call("none", Bytes(0), {}, TRUE)
    /\ ret = NULL
    /\ arena = [head |-> 0, first |-> 0, chunk_size |-> 0,
                total_allocs |-> 0, total_bytes |-> 0]
    /\ chunks = <<>>
    /\ next_chunk = 1
    /\ saved = {}
    /\ acall = [op |-> "none", size |-> 0, ok |-> TRUE, ub |-> "segv",
                str |-> [null |-> TRUE, mem |-> <<>>],
                sp |-> [head |-> 0, top |-> 0]]
    /\ aret = [chunk |-> 0, off |-> 0]
    /\ stored = <<>>
    /\ fault = FALSE
    /\ pc = "idle"
    /\ walk = NoWalk
    /\ held = <<>>

Malloc ==
    \E size \in MallocSizes :
      LET total == HdrWords + AlignUpWords(IF size = Bytes(0) THEN Bytes(1) ELSE size)
          slow == young_top + total > YoungWords
      IN
      \E fail \in (IF slow THEN SUBSET Tenuring(young_slab) ELSE {{}}) :
        LET fallback == slow /\ ~Fits(gc_collect_minor(GC, fail), total) IN
        \E ok \in (IF fallback THEN BOOLEAN ELSE {TRUE}) :
          /\ next_id <= MaxAllocs
          /\ gc_stats.total_allocs < MaxAllocs
          /\ old_used + total <= MaxOldUsed
          /\ Becomes(gc_malloc(GC, size, fail, ok))
          /\ call' = Call("malloc", size, fail, ok)

AllocOld ==
    \E size \in OldSizes, ok \in BOOLEAN :
      /\ next_id <= MaxAllocs
      /\ old_used + HdrWords + AlignUpWords(size) <= MaxOldUsed
      /\ Becomes(gc_alloc_old(GC, size, ok))
      /\ call' = Call("alloc_old", size, {}, ok)

Mark ==
    \E ptr \in LivePtrs \cup {NULL} :
      /\ Becomes(Void(gc_mark(GC, ptr)))
      /\ call' = Call("mark", Bytes(0), {}, TRUE)

UnmarkAll ==
    /\ Becomes(Void(gc_unmark_all(GC)))
    /\ call' = Call("unmark_all", Bytes(0), {}, TRUE)

Sweep ==
    \E fail \in SUBSET Tenuring(young_slab) :
      /\ gc_stats.minor_count < MaxMinor
      /\ Becomes(Void(gc_sweep(GC, fail)))
      /\ call' = Call("sweep", Bytes(0), fail, TRUE)

CollectFull ==
    \E fail \in SUBSET Tenuring(young_slab) :
      /\ gc_stats.minor_count < MaxMinor
      /\ Becomes(Void(gc_collect_full(GC, fail)))
      /\ call' = Call("collect_full", Bytes(0), fail, TRUE)

Next ==
    \/ Malloc
    \/ AllocOld
    \/ Mark
    \/ UnmarkAll
    \/ Sweep
    \/ CollectFull

Spec == Init /\ [][Next]_vars

(* ---------------------------------------------------------------- *)
(* The callers of the arena                                         *)
(* ---------------------------------------------------------------- *)
\* an arena call: its name, its size argument (initial_size, size or n),
\* whether mmap succeeds, what a read through a null head does, the string
\* and the savepoint passed
ArenaCall(op, size, ok, ub, str, sp) ==
    [op |-> op, size |-> size, ok |-> ok, ub |-> ub, str |-> str, sp |-> sp]

ArenaBecomes(s) ==
    /\ arena' = s.arena
    /\ chunks' = s.chunks
    /\ next_chunk' = s.next_chunk
    /\ aret' = s.ret
    /\ stored' = s.stored
    /\ fault' = s.fault
    /\ UNCHANGED gcvars
    /\ UNCHANGED xvars

\* the chunks of the chain, head first
Chain == Walk(chunks, arena.head, 0)

\* an allocation of size bytes would map a chunk
NeedsChunk(size) ==
    /\ size > 0
    /\ arena.head # 0
    /\ ~HeadFits(AR, ALIGN_UP(size, ARENA_DEFAULT_ALIGN))

\* the outcomes the environment can give an allocation of size bytes
Outcomes(size) ==
    { o \in [ok : BOOLEAN, ub : UBs] :
        /\ (~NeedsChunk(size) => o.ok)
        /\ ((size = 0 \/ arena.head # 0) => o.ub = "segv")
        /\ (NeedsChunk(size) /\ o.ok => next_chunk <= MaxChunks) }

InitFrom(sizes) ==
    \E initial_size \in sizes, ok \in BOOLEAN :
      /\ ~fault
      /\ arena.head = 0 /\ arena.first = 0
      /\ ok => next_chunk <= MaxChunks
      /\ ArenaBecomes(arena_init(AR, initial_size, ok))
      /\ acall' = ArenaCall("init", initial_size, ok, "segv", NullStr, NoSavepoint)
      /\ UNCHANGED saved

AllocFrom(sizes, bound) ==
    \E size \in sizes :
      \E o \in Outcomes(size) :
        /\ ~fault
        /\ arena.total_allocs < bound
        /\ ArenaBecomes(arena_alloc(AR, size, o.ok, o.ub))
        /\ acall' = ArenaCall("alloc", size, o.ok, o.ub, NullStr, NoSavepoint)
        /\ UNCHANGED saved

ArenaAllocZeroed ==
    \E size \in ZeroedSizes :
      \E o \in Outcomes(size) :
        /\ ~fault
        /\ arena.total_allocs < MaxArenaAllocs
        /\ ArenaBecomes(arena_alloc_zeroed(AR, size, o.ok, o.ub))
        /\ acall' = ArenaCall("alloc_zeroed", size, o.ok, o.ub, NullStr, NoSavepoint)
        /\ UNCHANGED saved

ArenaStrdup ==
    \E str \in Strs \cup {NullStr} :
      \E o \in Outcomes(IF str.null THEN 0 ELSE strlen(str.mem) + 1) :
        /\ ~fault
        /\ arena.total_allocs < MaxArenaAllocs
        /\ ArenaBecomes(arena_strdup(AR, str, o.ok, o.ub))
        /\ acall' = ArenaCall("strdup", 0, o.ok, o.ub, str, NoSavepoint)
        /\ UNCHANGED saved

\* n stays within the bytes readable at s
ArenaStrndup ==
    \E str \in Strs \cup {NullStr} :
      \E n \in 0..Len(str.mem) :
        \E o \in Outcomes(IF str.null THEN 0 ELSE n + 1) :
          /\ ~fault
          /\ arena.total_allocs < MaxArenaAllocs
          /\ ArenaBecomes(arena_strndup(AR, str, n, o.ok, o.ub))
          /\ acall' = ArenaCall("strndup", n, o.ok, o.ub, str, NoSavepoint)
          /\ UNCHANGED saved

ArenaReset ==
    /\ ~fault
    /\ ArenaBecomes(arena_reset(AR))
    /\ acall' = ArenaCall("reset", 0, TRUE, "segv", NullStr, NoSavepoint)
    /\ UNCHANGED saved

ArenaFree ==
    /\ ~fault
    /\ ArenaBecomes(arena_free(AR))
    /\ acall' = ArenaCall("free", 0, TRUE, "segv", NullStr, NoSavepoint)
    /\ UNCHANGED saved

\* the caller keeps every savepoint it takes
ArenaSave ==
    /\ ~fault
    /\ Cardinality(saved \cup {arena_save(AR)}) <= MaxSaved
    /\ saved' = saved \cup {arena_save(AR)}
    /\ acall' = ArenaCall("save", 0, TRUE, "segv", NullStr, arena_save(AR))
    /\ aret' = ARENA_NULL
    /\ stored' = <<>>
    /\ UNCHANGED <<arena, chunks, next_chunk, fault>>
    /\ UNCHANGED gcvars
    /\ UNCHANGED xvars

\* restore's precondition: the captured chunk is still part of the chain
ArenaRestore ==
    \E sp \in saved :
      /\ ~fault
      /\ sp.head = 0 \/ sp.head \in Range(Chain)
      /\ ArenaBecomes(arena_restore(AR, sp))
      /\ acall' = ArenaCall("restore", 0, TRUE, "segv", NullStr, sp)
      /\ UNCHANGED saved

\* the callers of one arena through its phases: allocation, savepoints,
\* reset
ArenaInit == InitFrom(InitSizes)
ArenaAlloc == AllocFrom(AllocSizes, MaxArenaAllocs)

ArenaNext ==
    \/ ArenaInit
    \/ ArenaAlloc
    \/ ArenaReset
    \/ ArenaSave
    \/ ArenaRestore

SpecArena == Init /\ [][ArenaNext]_vars

\* the callers that intern strings in an arena and release it
StringsInit == InitFrom(SmallInitSizes)

StringsNext ==
    \/ StringsInit
    \/ ArenaAlloc
    \/ ArenaAllocZeroed
    \/ ArenaStrdup
    \/ ArenaStrndup
    \/ ArenaFree

SpecArenaStrings == Init /\ [][StringsNext]_vars

\* the callers that fill an arena and never give anything back
FillAlloc == AllocFrom(FillSizes, MaxFillAllocs)

FillNext ==
    \/ ArenaInit
    \/ FillAlloc

SpecArenaFill == Init /\ [][FillNext]_vars

(* ---------------------------------------------------------------- *)
(* The collections, one loop iteration at a time                    *)
(* ---------------------------------------------------------------- *)
\* the header the cast (GcHeader*)p reads at p words from young_slab: the
\* header that starts there, if one does
HeaderAt(slab, p) == { i \in DOMAIN slab : OffsetOf(slab, i) = p }

\* variant: the cursor skips the payload only
Advance_Payload(p, h) == p + h.size

\* p += osz
Advance(p, h) == p + ObjWords(h)

\* one iteration of the loop of gc_collect_minor on the header at index i
minor_body(s, w, i, fail) ==
    LET h == s.young_slab[i]
        osz == ObjWords(h)
        w1 == [w EXCEPT !.p = Advance(@, h)]
    IN
    IF IsMarked(h) THEN
      LET aged == Aged(h)
          s1 == [s EXCEPT !.young_slab[i] = aged] IN
      IF Tenures(aged) THEN
        IF h.id \in fail
        THEN [gc |-> s1, walk |-> w1]
        ELSE [gc |-> [s1 EXCEPT !.old_list = <<PromotedCopy(aged)>> \o @,
                                !.old_used = @ + osz,
                                !.old_allocs = @ + 1,
                                !.gc_stats.promoted = @ + 1],
              walk |-> w1]
      ELSE [gc |-> s1,
            walk |-> [w1 EXCEPT !.sur = Append(@, SurvivorCopy(aged)),
                                !.sur_sz = @ + osz]]
    ELSE [gc |-> [s EXCEPT !.gc_stats.collected_young = @ + 1], walk |-> w1]

\* one iteration of the loop of gc_collect_major on the node *pp
major_body(s, w) ==
    LET h == s.old_list[w.i]
        w1 == [w EXCEPT !.seen = Append(@, h.id)] IN
    IF ~h.marked
    THEN [gc |-> [s EXCEPT !.old_list = SubSeq(@, 1, w.i - 1) \o SubSeq(@, w.i + 1, Len(@)),
                           !.old_used = @ - (HdrWords + h.size),
                           !.old_allocs = @ - 1,
                           !.gc_stats.collected_old = @ + 1],
          walk |-> w1]
    ELSE [gc |-> [s EXCEPT !.old_list[w.i] = Kept(h)],
          walk |-> [w1 EXCEPT !.i = @ + 1]]

\* the allocation and marking calls between collections: small objects in
\* the nursery, and old nodes whose size field is 0 (a request of 0 or of
\* 2^32 bytes, the latter lifting old_used over the threshold)
WalkMallocSizes == { Bytes(0) }
WalkOldSizes == { Bytes(0), [q |-> SIZE_FIELD_RANGE, r |-> 0] }

WalkMalloc ==
    \E size \in WalkMallocSizes :
      /\ pc = "idle"
      /\ next_id <= MaxAllocs
      /\ Fits(GC, HdrWords + AlignUpWords(Bytes(1)))
      /\ Becomes(gc_malloc(GC, size, {}, TRUE))
      /\ call' = Call("malloc", size, {}, TRUE)

WalkAllocOld ==
    \E size \in WalkOldSizes :
      /\ pc = "idle"
      /\ next_id <= MaxAllocs
      /\ old_used + HdrWords + AlignUpWords(size) <= MaxOldUsed
      /\ Becomes(gc_alloc_old(GC, size, TRUE))
      /\ call' = Call("alloc_old", size, {}, TRUE)

WalkMark == pc = "idle" /\ Mark

\* gc_sweep or gc_collect_full is called: gc_collect_minor up to its loop
Enter(op) ==
    \E fail \in SUBSET Tenuring(young_slab) :
      /\ pc = "idle"
      /\ gc_stats.minor_count < MaxMinor
      /\ pc' = "minor"
      /\ walk' = [NoWalk EXCEPT !.from = GC]
      /\ Assigns([GC EXCEPT !.gc_stats.minor_count = @ + 1])
      /\ call' = Call(op, Bytes(0), fail, TRUE)
      /\ UNCHANGED <<avars, held>>

EnterSweep == Enter("sweep")
EnterCollectFull == Enter("collect_full")

\* while (p < young_top): one iteration.  A cursor that is not on a header
\* reads bytes that are no header, and nothing bounds the walk any more.
MinorStep ==
    /\ pc = "minor"
    /\ walk.p < young_top
    /\ IF HeaderAt(young_slab, walk.p) = {}
       THEN /\ pc' = "lost"
            /\ UNCHANGED <<gcvars, walk>>
       ELSE LET i == CHOOSE i \in HeaderAt(young_slab, walk.p) : TRUE
                r == minor_body(GC, walk, i, call.fail) IN
            /\ Assigns(r.gc)
            /\ walk' = r.walk
            /\ UNCHANGED <<pc, call>>
    /\ UNCHANGED <<avars, held>>

\* the loop of gc_collect_minor is left: the survivors are copied back, and
\* the caller goes on to gc_collect_major or returns
MinorEnd ==
    /\ pc = "minor"
    /\ ~(walk.p < young_top)
    /\ LET s1 == [GC EXCEPT !.young_slab = walk.sur, !.young_top = walk.sur_sz] IN
       IF call.op = "collect_full" \/ OverThreshold(s1)
       THEN /\ pc' = "major"
            /\ Assigns([s1 EXCEPT !.gc_stats.major_count = @ + 1])
            /\ walk' = walk
       ELSE /\ pc' = "idle"
            /\ Assigns(Void(s1))
            /\ walk' = NoWalk
    /\ UNCHANGED <<call, avars, held>>

\* while (*pp): one iteration
MajorStep ==
    /\ pc = "major"
    /\ walk.i <= Len(old_list)
    /\ LET r == major_body(GC, walk) IN
       /\ Assigns(r.gc)
       /\ walk' = r.walk
    /\ UNCHANGED <<pc, call, avars, held>>

\* the loop of gc_collect_major is left and the call returns
MajorEnd ==
    /\ pc = "major"
    /\ ~(walk.i <= Len(old_list))
    /\ pc' = "idle"
    /\ Assigns(Void(IF call.op = "collect_full"
                    THEN [GC EXCEPT !.young_slab = <<>>, !.young_top = 0]
                    ELSE GC))
    /\ walk' = [NoWalk EXCEPT !.seen = walk.seen]
    /\ UNCHANGED <<call, avars, held>>

CollectNext ==
    \/ WalkMalloc
    \/ WalkAllocOld
    \/ WalkMark
    \/ EnterSweep
    \/ EnterCollectFull
    \/ MinorStep
    \/ MinorEnd
    \/ MajorStep
    \/ MajorEnd

\* a collection runs in the thread that called it and is never suspended
CollectFair ==
    /\ WF_vars(MinorStep)
    /\ WF_vars(MinorEnd)
    /\ WF_vars(MajorStep)
    /\ WF_vars(MajorEnd)

SpecCollect == Init /\ [][CollectNext]_vars /\ CollectFair

(* ---------------------------------------------------------------- *)
(* The caller that keeps the pointers gc_malloc returned            *)
(* ---------------------------------------------------------------- *)
\* the sizes it allocates: objects that fit the nursery many times over
HeldSizes == { Bytes(0), Bytes(100) }

\* where the byte PTR_TO_HDR(ptr)->marked of a nursery pointer lies: in the
\* header that starts there, inside an object that covers the place now, or
\* in the free part of the nursery
Lands(s, ptr) ==
    IF HeaderAt(s.young_slab, ptr.at) # {} THEN "header"
    ELSE IF ptr.at < s.young_top THEN "inside"
    ELSE "free"

\* gc_malloc on its fast path; the caller stores the pointer under the
\* object's identity
HeldMalloc ==
    \E size \in HeldSizes :
      /\ next_id <= MaxAllocs
      /\ Fits(GC, HdrWords + AlignUpWords(IF size = Bytes(0) THEN Bytes(1) ELSE size))
      /\ Assigns(gc_malloc(GC, size, {}, TRUE))
      /\ held' = Append(held, ret')
      /\ call' = Call("malloc", size, {}, TRUE)
      /\ UNCHANGED <<avars, pc, walk>>

\* gc_mark with the stored pointer of an object that is still young.  The
\* one byte written is the mark of the header at that place when a header
\* starts there; anywhere else no header's mark changes.
HeldMark ==
    \E id \in DOMAIN held :
      /\ \E i \in DOMAIN young_slab : young_slab[i].id = id
      /\ Assigns(Void(gc_mark(GC, held[id])))
      /\ call' = [op |-> "mark", size |-> Bytes(0), fail |-> {}, ok |-> TRUE,
                  object |-> id, lands |-> Lands(GC, held[id])]
      /\ UNCHANGED <<avars, xvars>>

HandlesNext ==
    \/ HeldMalloc
    \/ HeldMark
    \/ UnmarkAll
    \/ Sweep

SpecHandles == Init /\ [][HandlesNext]_vars

(* ---------------------------------------------------------------- *)
(* Properties                                                       *)
(* ---------------------------------------------------------------- *)
Ids(seq) == { seq[i].id : i \in DOMAIN seq }

\* an object as an observer compares it: its payload and its size
Faces(seq) == { <<seq[i].id, seq[i].size>> : i \in DOMAIN seq }

\* the step ran a minor collection
MinorRan == gc_stats'.minor_count = gc_stats.minor_count + 1

\* the step ran a major collection
MajorRan == gc_stats'.major_count = gc_stats.major_count + 1

\* the nodes a step put in front of the old list
PushedOld == SubSeq(old_list', 1, Len(old_list') - Len(old_list))

(* C1: for any minor collection the marked nursery objects before it are,  *)
(* by size and payload, exactly the objects it promoted together with the  *)
(* objects left in the nursery: none lost, none duplicated, none altered.  *)
(* Stated on sweep() calls that run no major collection, where the old     *)
(* list changes by the promotions alone.                                   *)
C1_Conservation ==
    [][ (call'.op = "sweep" /\ ~MajorRan) =>
          LET before == SelectSeq(young_slab, LAMBDA h : h.marked) IN
          /\ Faces(before) = Faces(young_slab') \cup Faces(PushedOld)
          /\ Len(before) = Len(young_slab') + Len(PushedOld) ]_vars

C3_UnmarkedOnceReclaimed ==
    [][ (call.op = "sweep" /\ call'.op = "sweep") =>
          \A i \in DOMAIN young_slab :
            (young_slab[i].age >= 1 /\ young_slab[i].age < TENURING_AGE) =>
              young_slab[i].id \notin (Ids(young_slab') \cup Ids(old_list')) ]_vars

(* C4: a nursery object whose mark bit is clear when a minor collection    *)
(* runs is in neither the nursery nor the old list after it, whatever its  *)
(* age, and never comes back: the objects of a state are those of the      *)
(* state before it and newly allocated ones.                               *)
C4_UnmarkedYoungFreed ==
    [][ /\ MinorRan =>
             \A i \in DOMAIN young_slab :
               ~young_slab[i].marked =>
                 young_slab[i].id \notin (Ids(young_slab') \cup Ids(old_list'))
        /\ next_id' >= next_id
        /\ \A id \in Ids(young_slab') \cup Ids(old_list') :
             \/ id \in Ids(young_slab) \cup Ids(old_list)
             \/ (id >= next_id /\ id < next_id') ]_vars

\* a sweep has just reclaimed the only object allocated, which was young
C4_Witness ==
    /\ call.op = "sweep"
    /\ gc_stats.collected_young = 1
    /\ gc_stats.total_allocs = 1
    /\ next_id = 2
    /\ young_slab = <<>>
    /\ old_list = <<>>

\* the bytes (in words) a run of headers takes, headers included
RECURSIVE WordsOf(_)
WordsOf(seq) ==
    IF seq = <<>> THEN 0 ELSE HdrWords + Head(seq).size + WordsOf(Tail(seq))

Reverse(seq) == [i \in 1..Len(seq) |-> seq[Len(seq) + 1 - i]]

\* what a minor collection started now leaves in the nursery, and what it
\* moves to the old list when the allocations in refused fail
StayYoung ==
    LET keep == SelectSeq(young_slab, LAMBDA h : h.marked /\ h.age + 1 < TENURING_AGE)
    IN  [i \in 1..Len(keep) |-> [keep[i] EXCEPT !.age = @ + 1]]

GoOld(refused) ==
    LET go == SelectSeq(young_slab,
                        LAMBDA h : /\ h.marked
                                   /\ h.age + 1 >= TENURING_AGE
                                   /\ h.id \notin refused)
    IN  [i \in 1..Len(go) |-> [go[i] EXCEPT !.age = @ + 1, !.generation = 1]]

(* C5: malloc(size) bump-allocates a young object (generation 0, age 0,    *)
(* mark clear) at the nursery top when header plus aligned size fits, and  *)
(* then runs no collection; otherwise it runs exactly one minor collection *)
(* and retries the nursery once; only when the request still does not fit  *)
(* is the object allocated in the old generation.  Every successful call   *)
(* adds exactly one to the total-allocation counter.                       *)
C5_MallocPaths ==
    [][ call'.op = "malloc" =>
          LET size == IF call'.size = Bytes(0) THEN Bytes(1) ELSE call'.size
              aligned == size.q + (IF size.r = 0 THEN 0 ELSE 1)
              total == HdrWords + aligned
              fresh == [id |-> next_id, size |-> aligned, age |-> 0,
                        marked |-> FALSE, generation |-> 0]
              top1 == WordsOf(StayYoung)
          IN
          /\ gc_stats'.minor_count \in {gc_stats.minor_count, gc_stats.minor_count + 1}
          /\ gc_stats'.major_count = gc_stats.major_count
          /\ ret' # NULL => gc_stats'.total_allocs = gc_stats.total_allocs + 1
          /\ young_top + total <= YoungWords =>
               /\ ~MinorRan
               /\ ret' = YoungPtr(young_top)
               /\ young_slab' = Append(young_slab, fresh)
               /\ young_top' = young_top + total
               /\ old_list' = old_list
          /\ (young_top + total > YoungWords /\ top1 + total <= YoungWords) =>
               /\ MinorRan
               /\ ret' = YoungPtr(top1)
               /\ young_slab' = Append(StayYoung, fresh)
               /\ young_top' = top1 + total
               /\ old_list' = Reverse(GoOld(call'.fail)) \o old_list
          /\ (young_top + total > YoungWords /\ top1 + total > YoungWords) =>
               /\ MinorRan
               /\ young_slab' = StayYoung
               /\ young_top' = top1
               /\ \/ /\ ret' = NULL
                     /\ old_list' = Reverse(GoOld(call'.fail)) \o old_list
                  \/ /\ ret' = HeapPtr(next_id)
                     /\ Len(old_list') = Len(GoOld(call'.fail)) + Len(old_list) + 1
                     /\ Head(old_list').id = next_id
                     /\ Head(old_list').generation = 1
                     /\ Tail(old_list') = Reverse(GoOld(call'.fail)) \o old_list ]_vars

\* a request that an empty nursery would hold went to the old generation:
\* the nursery was full, and stayed full over the minor collection
C5_Witness ==
    /\ call.op = "malloc"
    /\ call.size = Bytes(0)
    /\ ret.space = "heap"
    /\ gc_stats.minor_count = 1
    /\ Len(young_slab) = 1

(* C6: sweep() always runs exactly one minor collection, and runs a major  *)
(* collection as well if and only if old_used, with the bytes the minor    *)
(* collection promoted, is strictly greater than OLD_THRESHOLD; at or      *)
(* below the threshold the old list changes by the promoted nodes alone.   *)
C6_SweepThreshold ==
    [][ call'.op = "sweep" =>
          LET pushed == Reverse(GoOld(call'.fail))
              usage == old_used + WordsOf(pushed)
          IN
          /\ MinorRan
          /\ gc_stats'.major_count \in {gc_stats.major_count, gc_stats.major_count + 1}
          /\ MajorRan <=> usage > OldThresholdWords
          /\ usage <= OldThresholdWords =>
               /\ old_list' = pushed \o old_list
               /\ old_used' = usage
               /\ gc_stats'.collected_old = gc_stats.collected_old ]_vars

\* a sweep with old_used exactly at the threshold has run no major collection
C6_Witness ==
    /\ call.op = "sweep"
    /\ old_used = OldThresholdWords
    /\ gc_stats.minor_count = 1
    /\ gc_stats.major_count = 0
    /\ old_list # <<>>

(* C7: collectFull() runs exactly one minor and exactly one major          *)
(* collection whatever old_used is, and leaves the nursery empty: top at   *)
(* base, no bytes used.                                                    *)
C7_CollectFull ==
    [][ call'.op = "collect_full" =>
          /\ MinorRan
          /\ MajorRan
          /\ young_top' = 0
          /\ young_slab' = <<>> ]_vars

\* collectFull ran its major collection with old_used below the threshold
C7_Witness ==
    /\ call.op = "collect_full"
    /\ gc_stats.major_count = 1
    /\ gc_stats.promoted = 1
    /\ old_used > 0
    /\ old_used < OldThresholdWords

(* C8: a major collection removes from the old list exactly the nodes      *)
(* whose mark bit is unset and counts each as reclaimed; the marked nodes  *)
(* stay, in their order, with the mark bit cleared.  The list at the start *)
(* of the major collection is the old list with the nodes the minor        *)
(* collection of the same call promoted in front.                          *)
C8_MajorSweep ==
    [][ MajorRan =>
          LET before == Reverse(GoOld(call'.fail)) \o old_list
              stay == SelectSeq(before, LAMBDA h : h.marked)
          IN
          /\ old_list' = [i \in 1..Len(stay) |-> [stay[i] EXCEPT !.marked = FALSE]]
          /\ gc_stats'.collected_old = gc_stats.collected_old + Len(before) - Len(stay) ]_vars

\* a major collection has freed one node and kept the other
C8_Witness ==
    /\ gc_stats.major_count = 1
    /\ gc_stats.collected_old = 1
    /\ Len(old_list) = 1
    /\ call.op \in {"sweep", "collect_full"}

(* C9: from an empty old generation, allocOld calls until old_used exceeds *)
(* OLD_THRESHOLD, no object marked, then sweep(): old_used is 0, the old   *)
(* list is empty and collected_old has grown by the number of allocations. *)
(* No major collection has run and nothing was promoted before, so the old *)
(* list holds the allocations made and old_used is their running total.    *)
C9_ScenarioC ==
    [][ ( /\ call'.op = "sweep"
          /\ gc_stats.major_count = 0
          /\ gc_stats.promoted = 0
          /\ old_used > OldThresholdWords
          /\ \A i \in DOMAIN old_list : ~old_list[i].marked
          /\ \A i \in DOMAIN young_slab : ~young_slab[i].marked ) =>
          /\ old_used' = 0
          /\ old_list' = <<>>
          /\ gc_stats'.collected_old = gc_stats.collected_old + Len(old_list) ]_vars

(* C10: unmarkAll() clears the mark bit of every header of the nursery and *)
(* of every node of the old list and changes nothing else; calling it      *)
(* again on the state it leaves changes nothing at all.                    *)
C10_UnmarkAll ==
    [][ call'.op = "unmark_all" =>
          /\ young_slab' = [i \in 1..Len(young_slab) |->
                              [young_slab[i] EXCEPT !.marked = FALSE]]
          /\ old_list' = [i \in 1..Len(old_list) |->
                            [old_list[i] EXCEPT !.marked = FALSE]]
          /\ UNCHANGED <<young_top, old_used, old_allocs, gc_stats, next_id>>
          /\ Void(gc_unmark_all(GC))' = GC' ]_vars

\* unmarkAll has just cleared the mark of a survivor and left an old node
C10_Witness ==
    /\ call.op = "unmark_all"
    /\ old_list # <<>>
    /\ \E i \in DOMAIN young_slab : young_slab[i].age = 1 /\ ~young_slab[i].marked

(* C11: when the heap allocation for a promoting copy fails during a minor *)
(* collection, the marked object being promoted is still present after the *)
(* collection, in the nursery or in the old list.                          *)
C11_PromotionFailureKeeps ==
    [][ (call'.op = "sweep" /\ MinorRan) =>
          \A i \in DOMAIN young_slab :
            LET h == young_slab[i] IN
            (h.marked /\ h.id \in call'.fail) =>
              h.id \in Ids(young_slab') \cup Ids(old_list') ]_vars

(* ---------------------------------------------------------------- *)
(* Properties of the arena                                          *)
(* ---------------------------------------------------------------- *)
(* C12: when mmap refuses the chunk arena_alloc asks for, arena_alloc       *)
(* returns null and leaves the arena as it was: the chain, head, first,    *)
(* every chunk cursor, total_allocs and total_bytes.                       *)
C12_FailedAllocIntact ==
    [][ (acall'.op = "alloc" /\ ~acall'.ok) =>
          /\ aret' = ARENA_NULL
          /\ UNCHANGED <<arena, chunks>> ]_vars

\* the bytes in use in the chunks of the chain
RECURSIVE SumTops(_)
SumTops(chain) ==
    IF chain = <<>> THEN 0 ELSE chunks[Head(chain)].top + SumTops(Tail(chain))

\* ten alloc(500) calls, each of them served, on an arena of capacity 4096
ScenarioB ==
    /\ arena.head # 0
    /\ arena.chunk_size = 4096
    /\ arena.total_allocs = 10
    /\ arena.total_bytes = 10 * ALIGN_UP(500, ARENA_DEFAULT_ALIGN)
    /\ SumTops(Chain) = arena.total_bytes

(* C13: arena_alloc(size) with size > 0 on an arena that has a head chunk   *)
(* allocates at the head's cursor whenever the 8-byte-aligned size fits in *)
(* what is left of the head, mapping no chunk; otherwise, mmap permitting, *)
(* it maps exactly one chunk, links it in front of the chain and allocates *)
(* at its base.  An arena initialised with 4096 holds exactly 2 chunks     *)
(* after ten alloc(500) calls.                                             *)
C13_AllocPaths ==
    [][ /\ (acall'.op = "alloc" /\ acall'.size > 0 /\ arena.head # 0) =>
             LET aligned == ALIGN_UP(acall'.size, ARENA_DEFAULT_ALIGN)
                 c == arena.head IN
             IF chunks[c].top + aligned <= chunks[c].cap
             THEN /\ aret' = ArenaPtr(c, chunks[c].top)
                  /\ chunks' = [chunks EXCEPT ![c].top = @ + aligned]
                  /\ arena'.head = c
                  /\ next_chunk' = next_chunk
             ELSE acall'.ok =>
                  \E nc \in DOMAIN chunks' \ DOMAIN chunks :
                    /\ DOMAIN chunks' = DOMAIN chunks \cup {nc}
                    /\ \A x \in DOMAIN chunks : chunks'[x] = chunks[x]
                    /\ arena'.head = nc
                    /\ chunks'[nc].next = c
                    /\ chunks'[nc].cap >= aligned
                    /\ chunks'[nc].top = aligned
                    /\ aret' = ArenaPtr(nc, 0)
        /\ ScenarioB' => Len(Chain') = 2 ]_vars

\* the tenth alloc(500) has been served from the second chunk
C13_Witness ==
    /\ acall.op = "alloc"
    /\ ScenarioB
    /\ Len(Chain) = 2
    /\ aret = ArenaPtr(arena.head, ALIGN_UP(500, ARENA_DEFAULT_ALIGN))

\* the step is an arena_alloc that mapped a chunk
AddedChunk ==
    /\ acall'.op = "alloc"
    /\ arena.head # 0
    /\ arena'.head \notin DOMAIN chunks

(* C14, as claimed: whenever arena_alloc adds a chunk, the capacity it     *)
(* asks for is max(chunk_size, 2 * size) for every requested size, sizes   *)
(* between half of chunk_size and chunk_size included; the chunk gets      *)
(* that capacity rounded up to a page.                                     *)
C14_NewCapIsMax ==
    [][ AddedChunk =>
          chunks'[arena'.head].cap =
            ALIGN_UP(Max(arena.chunk_size, 2 * acall'.size), PAGE_SIZE) ]_vars

(* C14, amended: whenever arena_alloc adds a chunk, the capacity it asks   *)
(* for is twice the 8-byte-aligned size when that aligned size exceeds     *)
(* chunk_size, and chunk_size otherwise (so chunk_size itself for sizes    *)
(* between half of chunk_size and chunk_size); the chunk gets that         *)
(* capacity rounded up to a page.                                          *)
C14_NewCapDoublesOversized ==
    [][ AddedChunk =>
          LET aligned == ALIGN_UP(acall'.size, ARENA_DEFAULT_ALIGN) IN
          chunks'[arena'.head].cap =
            ALIGN_UP(IF aligned > arena.chunk_size THEN 2 * aligned
                     ELSE arena.chunk_size, PAGE_SIZE) ]_vars

\* a request between half of chunk_size and chunk_size got a chunk of
\* chunk_size, with an older chunk behind it
C14_Witness ==
    /\ acall.op = "alloc"
    /\ arena.head \in DOMAIN chunks
    /\ 2 * acall.size > arena.chunk_size
    /\ acall.size <= arena.chunk_size
    /\ aret = ArenaPtr(arena.head, 0)
    /\ chunks[arena.head].next # 0
    /\ chunks[arena.head].cap = arena.chunk_size

Position(s, ptr, sp) ==
    [depth |-> Len(Walk(s.chunks, ptr.chunk, sp.head)), off |-> ptr.off]

\* arena_alloc of each size in turn, mmap never failing: the arena at the
\* end and the position of each pointer returned
RECURSIVE AllocAll(_, _, _)
AllocAll(s, sizes, sp) ==
    IF sizes = <<>> THEN [s |-> s, at |-> <<>>]
    ELSE LET s1 == arena_alloc(s, Head(sizes), TRUE, "segv")
             rest == AllocAll(s1, Tail(sizes), sp) IN
         [s |-> rest.s, at |-> <<Position(s1, s1.ret, sp)>> \o rest.at]

\* the sequences of n elements of S; what a shorter sequence gives is what
\* a sequence that begins with it gives for its first allocations
SeqsOf(S, n) == [1..n -> S]

\* save, the allocations, restore, the same allocations again
Replay(sizes) ==
    LET sp == arena_save(AR)
        run1 == AllocAll(AR, sizes, sp)
        back == arena_restore(run1.s, sp)
        run2 == AllocAll(back, sizes, sp) IN
    [first |-> run1, back |-> back, again |-> run2]

(* C16: in every state an arena with a head chunk reaches, for every       *)
(* sequence of MaxReplay allocation sizes: taking a savepoint, making the  *)
(* allocations, restoring the savepoint and making the same allocations    *)
(* again gives every allocation the position it had the first time (as    *)
(* many chunks in front of the captured chunk, same offset in its chunk).  *)
C16_RestoreReplays ==
    arena.head # 0 =>
      \A sizes \in SeqsOf(ReplaySizes, MaxReplay) :
        LET r == Replay(sizes) IN r.again.at = r.first.at

\* a savepoint taken here with the cursor off the base is followed by
\* allocations that map two chunks, which the restore releases again
C16_Witness ==
    /\ arena.head # 0
    /\ acall.op = "restore"
    /\ chunks[arena.head].top > 0
    /\ \E sizes \in SeqsOf(ReplaySizes, MaxReplay) :
         LET r == Replay(sizes) IN
         /\ ChunkCount(r.first.s) = ChunkCount(AR) + 2
         /\ ChunkCount(r.back) = ChunkCount(AR)
         /\ r.again.at = r.first.at
         /\ r.again.at[Len(sizes)].depth = 2

\* the place of a chunk in a chain (0: not in it)
IndexIn(chain, c) ==
    IF c \in Range(chain) THEN CHOOSE i \in DOMAIN chain : chain[i] = c ELSE 0

(* C17: arena_restore of a savepoint whose captured chunk is in the chain   *)
(* unmaps exactly the chunks in front of the captured chunk, leaves the    *)
(* captured chunk, every chunk behind it and first mapped and as they      *)
(* were, puts the captured chunk's cursor at the recorded offset and makes *)
(* the captured chunk the head.                                            *)
C17_Restore ==
    [][ (acall'.op = "restore" /\ acall'.sp.head \in Range(Chain)) =>
          LET sp == acall'.sp
              k == IndexIn(Chain, sp.head)
              newer == { Chain[i] : i \in 1..(k - 1) } IN
          /\ DOMAIN chunks' = DOMAIN chunks \ newer
          /\ chunks'[sp.head] = [chunks[sp.head] EXCEPT !.top = sp.top]
          /\ \A x \in DOMAIN chunks' \ {sp.head} : chunks'[x] = chunks[x]
          /\ arena'.head = sp.head
          /\ arena'.first = arena.first
          /\ arena.first \in DOMAIN chunks'
          /\ Chain' = SubSeq(Chain, k, Len(Chain)) ]_vars

\* a restore to a savepoint on the second chunk: the third chunk is gone,
\* the second is head with its cursor back, the first is still behind it
C17_Witness ==
    /\ acall.op = "restore"
    /\ acall.sp.head = 2
    /\ Chain = <<2, 1>>
    /\ next_chunk = 4
    /\ DOMAIN chunks = {1, 2}
    /\ chunks[2].top = acall.sp.top
    /\ arena.total_bytes > chunks[1].top + chunks[2].top

(* C18: arena_free unmaps every chunk of the chain, first included, each    *)
(* exactly once (the chain names mapped chunks and names none twice), and  *)
(* zeroes the Arena: head and first are null, the chain is empty,          *)
(* chunk_size and both counters are 0, and no chunk stays mapped.          *)
C18_Free ==
    [][ acall'.op = "free" =>
          /\ Range(Chain) \subseteq DOMAIN chunks
          /\ Cardinality(Range(Chain)) = Len(Chain)
          /\ arena.first # 0 => arena.first \in Range(Chain)
          /\ DOMAIN chunks' = DOMAIN chunks \ Range(Chain)
          /\ DOMAIN chunks' = {}
          /\ arena'.head = 0
          /\ arena'.first = 0
          /\ Chain' = <<>>
          /\ arena'.chunk_size = 0
          /\ arena'.total_allocs = 0
          /\ arena'.total_bytes = 0 ]_vars

\* arena_free has run on an arena that had mapped chunks
C18_Witness ==
    /\ acall.op = "free"
    /\ next_chunk >= 3
    /\ DOMAIN chunks = {}
    /\ arena.head = 0

\* the step is a call of the alloc family
AllocFamily == acall'.op \in {"alloc", "alloc_zeroed", "strdup", "strndup"}

(* C19: a call of the alloc family on an arena whose chain is empty (after *)
(* arena_free, or after an arena_init whose mmap failed) returns null; it  *)
(* reads nothing through the null head and the process goes on.            *)
C19_EmptyChainRejected ==
    [][ (AllocFamily /\ arena.head = 0) =>
          /\ aret' = ARENA_NULL
          /\ ~fault' ]_vars

\* the region a call got is new: at the base of a chunk mapped by the call,
\* or at the head's cursor, where the bytes handed out before end
FreshRegion(len) ==
    LET aligned == ALIGN_UP(len, ARENA_DEFAULT_ALIGN) IN
    /\ aret'.chunk = arena'.head
    /\ aret'.chunk \in DOMAIN chunks'
    /\ IF aret'.chunk \in DOMAIN chunks
       THEN aret'.chunk = arena.head /\ aret'.off = chunks[arena.head].top
       ELSE aret'.off = 0
    /\ aret'.off % ARENA_DEFAULT_ALIGN = 0
    /\ chunks'[aret'.chunk].top = aret'.off + aligned
    /\ aret'.off + len <= chunks'[aret'.chunk].cap

(* C20: on an arena with a head chunk, arena_strdup(s) of a non-null s      *)
(* returns storage of the arena that no earlier allocation holds, filled   *)
(* with the bytes of s up to and including its first NUL;                  *)
(* arena_strndup(s, n) returns such storage filled with the first n bytes  *)
(* of s and a NUL at index n; both return null when mmap refuses the chunk *)
(* they need; and with a null s both return null and change nothing in the *)
(* arena, whatever its state.                                              *)
C20_Strdup ==
    [][ /\ (acall'.op \in {"strdup", "strndup"} /\ acall'.str.null) =>
             /\ aret' = ARENA_NULL
             /\ UNCHANGED <<arena, chunks, next_chunk, fault>>
        /\ ( /\ acall'.op \in {"strdup", "strndup"}
             /\ ~acall'.str.null /\ arena.head # 0 /\ ~acall'.ok ) =>
             /\ aret' = ARENA_NULL
             /\ DOMAIN chunks' = DOMAIN chunks
        /\ ( /\ acall'.op = "strdup"
             /\ ~acall'.str.null /\ arena.head # 0 /\ acall'.ok ) =>
             LET mem == acall'.str.mem IN
             /\ aret' # ARENA_NULL
             /\ FreshRegion(Len(stored'))
             /\ Len(stored') <= Len(mem)
             /\ \A i \in DOMAIN stored' : stored'[i] = mem[i]
             /\ stored'[Len(stored')] = 0
             /\ \A i \in 1..(Len(stored') - 1) : stored'[i] # 0
        /\ ( /\ acall'.op = "strndup"
             /\ ~acall'.str.null /\ arena.head # 0 /\ acall'.ok ) =>
             LET mem == acall'.str.mem
                 n == acall'.size IN
             /\ aret' # ARENA_NULL
             /\ FreshRegion(n + 1)
             /\ Len(stored') = n + 1
             /\ \A i \in 1..n : stored'[i] = mem[i]
             /\ stored'[n + 1] = 0 ]_vars

\* strdup of a string with bytes behind its NUL, stored after an earlier
\* allocation of the same chunk
C20_Witness ==
    /\ acall.op = "strdup"
    /\ acall.str.mem = <<97, 0, 98>>
    /\ stored = <<97, 0>>
    /\ aret.chunk = arena.head
    /\ aret.off > 0

(* C21: arena_init(initial_size), mmap permitting, maps exactly one chunk;  *)
(* its capacity is initial_size rounded up to a multiple of the 4096-byte  *)
(* page (the least such multiple that is at least initial_size), its       *)
(* cursor is at its base and it has no successor; the chunk is both head   *)
(* and first, and both counters are 0.                                     *)
C21_Init ==
    [][ (acall'.op = "init" /\ acall'.ok) =>
          \E c \in DOMAIN chunks' \ DOMAIN chunks :
            /\ DOMAIN chunks' = DOMAIN chunks \cup {c}
            /\ \A x \in DOMAIN chunks : chunks'[x] = chunks[x]
            /\ chunks'[c].cap % PAGE_SIZE = 0
            /\ chunks'[c].cap >= acall'.size
            /\ chunks'[c].cap < acall'.size + PAGE_SIZE
            /\ chunks'[c].top = 0
            /\ chunks'[c].next = 0
            /\ arena'.head = c
            /\ arena'.first = c
            /\ arena'.total_allocs = 0
            /\ arena'.total_bytes = 0 ]_vars

\* an arena initialised with 100 bytes has one chunk of one page
C21_Witness ==
    /\ acall.op = "init"
    /\ acall.size = 100
    /\ arena.head # 0
    /\ arena.first = arena.head
    /\ DOMAIN chunks = {arena.head}
    /\ chunks[arena.head].cap = PAGE_SIZE

(* C22: every non-null pointer arena_alloc returns on an arena with a head *)
(* chunk lies at an 8-byte-aligned offset of a mapped chunk, and the size  *)
(* bytes from it lie inside the chunk's capacity.  Regions of successive   *)
(* allocations never overlap: the region starts at or beyond the cursor    *)
(* its chunk had (beyond every byte handed out before) and ends at or      *)
(* below the cursor the chunk has afterwards, arena_alloc moves no cursor  *)
(* back and unmaps nothing, and the region of the allocation just before   *)
(* ends where this one starts or earlier.                                  *)
C22_Regions ==
    [][ (acall'.op = "alloc" /\ arena.head # 0 /\ aret' # ARENA_NULL) =>
          LET c == aret'.chunk
              size == acall'.size IN
          /\ c \in DOMAIN chunks'
          /\ aret'.off >= 0
          /\ aret'.off % ARENA_DEFAULT_ALIGN = 0
          /\ aret'.off + size <= chunks'[c].cap
          /\ c \in DOMAIN chunks => aret'.off >= chunks[c].top
          /\ aret'.off + size <= chunks'[c].top
          /\ \A x \in DOMAIN chunks :
               x \in DOMAIN chunks' /\ chunks'[x].top >= chunks[x].top
          /\ (acall.op = "alloc" /\ aret # ARENA_NULL /\ aret.chunk = c) =>
               aret.off + acall.size <= aret'.off ]_vars

\* alloc(500) served in the second chunk right behind an alloc(3000)
C22_Witness ==
    /\ acall.op = "alloc"
    /\ acall.size = 500
    /\ arena.head \in DOMAIN chunks
    /\ chunks[arena.head].next # 0
    /\ aret = ArenaPtr(arena.head, 3000)

(* ---------------------------------------------------------------- *)
(* Properties of the collector, continued                           *)
(* ---------------------------------------------------------------- *)
\* the counters of GcStats
StatNames == {"minor_count", "major_count", "promoted", "collected_young",
              "collected_old", "total_allocs"}

(* C23: over malloc, allocOld, mark, unmarkAll, sweep and collectFull no    *)
(* counter of gc_stats ever decreases; mark and unmarkAll leave all six    *)
(* unchanged, so they change only in allocations and collections.          *)
C23_StatsMonotone ==
    [][ /\ \A f \in StatNames : gc_stats'[f] >= gc_stats[f]
        /\ call'.op \in {"mark", "unmark_all"} => gc_stats' = gc_stats
        /\ gc_stats' # gc_stats =>
             call'.op \in {"malloc", "alloc_old", "sweep", "collect_full"} ]_vars

\* a mark after collections that promoted and reclaimed
C23_Witness ==
    /\ call.op = "mark"
    /\ gc_stats.minor_count = 2
    /\ gc_stats.promoted = 1
    /\ gc_stats.collected_young = 1
    /\ gc_stats.total_allocs = 2

\* the nodes of the old list that a step took from the nursery
Promoted == { i \in DOMAIN old_list' : old_list'[i].id \in Ids(young_slab) }

(* C24: after a minor collection every header left in the nursery, and     *)
(* every node the collection promoted to the old list, has its mark bit    *)
(* clear.  Stated on sweep() calls that run no major collection, where the *)
(* minor collection alone has touched the mark bits.                       *)
C24_MinorClearsMarks ==
    [][ (call'.op = "sweep" /\ ~MajorRan) =>
          /\ \A i \in DOMAIN young_slab' : ~young_slab'[i].marked
          /\ \A i \in Promoted : ~old_list'[i].marked ]_vars

\* the objects, in address order, that are marked when a minor collection
\* starts and that the collection does not insert into the old list
MarkedNotPromoted ==
    SelectSeq(young_slab, LAMBDA h : h.marked /\ h.id \notin Ids(old_list'))

(* C25: after a minor collection the nursery holds exactly the marked,     *)
(* non-promoted objects in their original address order, packed from base  *)
(* with no gaps, and top is base plus the sum of their header + size byte  *)
(* counts; when no header was marked, top equals base.                     *)
C25_NurseryAfterMinor ==
    [][ call'.op = "sweep" =>
          /\ Len(young_slab') = Len(MarkedNotPromoted)
          /\ \A i \in DOMAIN young_slab' :
               /\ young_slab'[i].id = MarkedNotPromoted[i].id
               /\ young_slab'[i].size = MarkedNotPromoted[i].size
          /\ young_top' = WordsOf(young_slab')
          /\ (\A i \in DOMAIN young_slab : ~young_slab[i].marked) => young_top' = 0
      ]_vars

(* C26: a minor collection increases the young-reclaimed counter by        *)
(* exactly the number of nursery headers whose mark bit was clear when it  *)
(* started, and the promoted counter by exactly the number of objects it   *)
(* inserted into the old list; with every other object marked, the         *)
(* young-reclaimed counter grows by the count of the unmarked half.        *)
C26_MinorCounters ==
    [][ MinorRan =>
          LET clear == { i \in DOMAIN young_slab : ~young_slab[i].marked }
              inserted == Ids(old_list') \cap Ids(young_slab)
          IN  /\ gc_stats'.collected_young = gc_stats.collected_young + Cardinality(clear)
              /\ gc_stats'.promoted = gc_stats.promoted + Cardinality(inserted)
      ]_vars

\* two objects allocated, one of them marked: the first collection reclaimed
\* the unmarked one, the second promoted the other
C26_Witness ==
    /\ call.op = "sweep"
    /\ gc_stats.total_allocs = 2
    /\ gc_stats.minor_count = 2
    /\ gc_stats.collected_young = 1
    /\ gc_stats.promoted = 1
    /\ Len(old_list) = 1

(* C27: in every reachable state the nursery top lies between base and     *)
(* base + capacity; walking from base header by header using each header's *)
(* size lands exactly on top; and every header between base and top has    *)
(* generation 0.                                                           *)
C27_NurseryInvariant ==
    /\ 0 <= young_top
    /\ young_top <= YoungWords
    /\ WordsOf(young_slab) = young_top
    /\ \A i \in DOMAIN young_slab : young_slab[i].generation = 0

\* an object that fills the nursery to its last word has survived a minor
\* collection and was copied back to base
C27_Witness ==
    /\ Len(young_slab) = 1
    /\ young_slab[1].age = 1
    /\ young_top = YoungWords
    /\ gc_stats.minor_count >= 1

(* C28: in every reachable state every node of the old list has generation *)
(* 1, the old-generation live-byte counter equals the sum of header size + *)
(* payload size over the nodes currently in the old list, and the          *)
(* old-generation live-count counter equals the number of nodes in the     *)
(* list; across allocOld, the malloc fallback, promotion and major         *)
(* collection.                                                             *)
C28_OldListInvariant ==
    /\ \A i \in DOMAIN old_list : old_list[i].generation = 1
    /\ old_used = WordsOf(old_list)
    /\ old_allocs = Len(old_list)

(* C29: allocOld(size) bypasses the nursery: on success it inserts one new *)
(* node at the head of the old list with generation old, age equal to the  *)
(* tenuring threshold and mark clear, adds header + aligned payload bytes  *)
(* to the old live-byte counter and one to the live count, and leaves the  *)
(* nursery (contents and top) unchanged; on heap-allocation failure it     *)
(* returns null and leaves the old list and both old counters unchanged.   *)
C29_AllocOld ==
    [][ call'.op = "alloc_old" =>
          /\ young_slab' = young_slab
          /\ young_top' = young_top
          /\ call'.ok =>
               /\ ret' # NULL
               /\ Len(old_list') = Len(old_list) + 1
               /\ Tail(old_list') = old_list
               /\ Head(old_list').id \notin Ids(old_list) \cup Ids(young_slab)
               /\ Head(old_list').generation = 1
               /\ Head(old_list').age = TENURING_AGE
               /\ ~Head(old_list').marked
               /\ old_used' = old_used + HdrWords + AlignUpWords(call'.size)
               /\ old_allocs' = old_allocs + 1
          /\ ~call'.ok =>
               /\ ret' = NULL
               /\ old_list' = old_list
               /\ old_used' = old_used
               /\ old_allocs' = old_allocs
      ]_vars

\* allocOld(100) has succeeded while the nursery held an object: the new
\* node heads the old list and the nursery object is where it was
C29_Witness ==
    /\ call.op = "alloc_old"
    /\ call.ok
    /\ call.size = Bytes(100)
    /\ Len(young_slab) = 1
    /\ Len(old_list) = 1
    /\ old_used = HdrWords + AlignUpWords(Bytes(100))
    /\ ret # NULL

(* C30: no allocation call triggers a major collection: malloc and         *)
(* allocOld leave the major-collection counter and the old-reclaimed       *)
(* counter unchanged and never remove a node from the old list, even when  *)
(* old-generation usage exceeds the threshold; only sweep and collectFull  *)
(* run a major collection.                                                 *)
C30_NoMajorInAlloc ==
    [][ /\ call'.op \in {"malloc", "alloc_old"} =>
             /\ gc_stats'.major_count = gc_stats.major_count
             /\ gc_stats'.collected_old = gc_stats.collected_old
             /\ \A i \in DOMAIN old_list :
                  \E j \in DOMAIN old_list' : old_list'[j] = old_list[i]
        /\ (MajorRan \/ gc_stats'.collected_old # gc_stats.collected_old) =>
             call'.op \in {"sweep", "collect_full"}
      ]_vars

\* an allocation made while the old generation was already over the
\* threshold: the unmarked node that put it there is still in the list
C30_Witness ==
    /\ call.op = "alloc_old"
    /\ call.ok
    /\ Len(old_list) = 2
    /\ old_used - (HdrWords + AlignUpWords(call.size)) > OldThresholdWords
    /\ ~old_list[2].marked
    /\ gc_stats.major_count = 0

\* the chain of arena a over the chunks ch is well formed: head and first
\* are mapped, every cursor is within its chunk, first ends the chain
WellFormed(a, ch) ==
    /\ a.head \in DOMAIN ch
    /\ a.first \in DOMAIN ch
    /\ LET chain == Walk(ch, a.head, 0) IN
       /\ \A i \in DOMAIN chain :
            /\ chain[i] \in DOMAIN ch
            /\ 0 <= ch[chain[i]].top
            /\ ch[chain[i]].top <= ch[chain[i]].cap
       /\ chain[Len(chain)] = a.first
       /\ \A i, j \in DOMAIN chain : chain[i] = chain[j] => i = j

\* chain after is chain before with chunks dropped or fresh chunks added,
\* in either case at the head only
GrowsAtHead(before, after) ==
    \E k \in 0..Len(after) :
      /\ \A i \in 1..k : after[i] \notin Range(before)
      /\ \E d \in 0..Len(before) :
           SubSeq(after, k + 1, Len(after)) = SubSeq(before, d + 1, Len(before))

(* C31: in every reachable state of an initialised arena, over alloc,      *)
(* save, reset and restore calls in which every restored savepoint's       *)
(* chunk is still in the chain: base <= top <= base + capacity for every   *)
(* chunk of the chain; head and first refer to unreleased chunks; first    *)
(* never changes after init, is reachable from head and is the last chunk  *)
(* of the chain; and the chain gains chunks only at the head.              *)
C31_ArenaInvariant ==
    [][ /\ (acall'.op = "init" /\ acall'.ok) => WellFormed(arena', chunks')
        /\ (arena.first # 0 /\ ~fault) =>
             /\ WellFormed(arena', chunks')
             /\ arena'.first = arena.first
             /\ GrowsAtHead(Chain, Chain')
      ]_vars

\* a restore has dropped the head chunk of a chain of two and moved the
\* cursor of first back
C31_Witness ==
    /\ acall.op = "restore"
    /\ acall.sp.head = arena.first
    /\ arena.head = arena.first
    /\ next_chunk = 3
    /\ DOMAIN chunks = {arena.first}
    /\ chunks[arena.first].top = acall.sp.top
    /\ acall.sp.top > 0

\* the headers of the heap that carry the object created by the step
NewHeaders ==
    { young_slab'[i] : i \in { j \in DOMAIN young_slab' : young_slab'[j].id = next_id } }
      \cup { old_list'[i] : i \in { j \in DOMAIN old_list' : old_list'[j].id = next_id } }

\* a zero request treated as a request of one byte
Coerced(size) == IF size = Bytes(0) THEN Bytes(1) ELSE size

(* C32: the size field of every header equals the request rounded up to a  *)
(* multiple of 8 (a zero request treated as one), for every request        *)
(* accepted by malloc or allocOld, including requests of 2^32 bytes or     *)
(* more that reach the old-generation path.                                *)
C32_SizeField ==
    [][ (call'.op \in {"malloc", "alloc_old"} /\ ret' # NULL) =>
          /\ NewHeaders # {}
          /\ \A h \in NewHeaders : h.size = AlignUpWords(Coerced(call'.size))
      ]_vars

(* ---------------------------------------------------------------- *)
(* Properties of the collections as loops                           *)
(* ---------------------------------------------------------------- *)
\* the nursery walk is on a header whenever its loop condition holds
OnHeader ==
    (pc = "minor" /\ walk.p < young_top) => HeaderAt(young_slab, walk.p) # {}

(* C33: every minor, major and full collection started in a reachable      *)
(* state runs to completion: every nursery header has a size of at least 8 *)
(* bytes and the nursery walk strictly advances on every header, the       *)
(* old-list traversal looks at each node once, and sweep() and             *)
(* collectFull() always return.                                            *)
C33_CollectionsReturn ==
    /\ [](OnHeader /\ \A i \in DOMAIN young_slab : young_slab[i].size >= 1)
    /\ [][ /\ (pc = "minor" /\ pc' = "minor") =>
                 /\ walk'.p > walk.p
                 /\ young_top - walk'.p < young_top - walk.p
           /\ (pc = "major" /\ pc' = "major") =>
                 /\ Len(walk'.seen) = Len(walk.seen) + 1
                 /\ walk'.seen[Len(walk'.seen)] \notin Range(walk.seen)
                 /\ Len(old_list') - walk'.i < Len(old_list) - walk.i
         ]_vars
    /\ (pc # "idle") ~> (pc = "idle")

\* a collectFull() has returned after a nursery walk that promoted a
\* header and an old-list traversal over two nodes
C33_Witness ==
    /\ pc = "idle"
    /\ call.op = "collect_full"
    /\ gc_stats.promoted = 1
    /\ Len(walk.seen) = 2
    /\ gc_stats.major_count >= 1

(* ---------------------------------------------------------------- *)
(* Properties of the collector, its accounting and its pointers     *)
(* ---------------------------------------------------------------- *)
(* C34: object accounting is conserved over any sequence of malloc,        *)
(* allocOld, mark, unmarkAll, sweep and collectFull calls: the number of   *)
(* objects ever successfully allocated equals the number of headers in the *)
(* nursery plus the number of nodes in the old list plus the               *)
(* young-reclaimed counter plus the old-reclaimed counter.                 *)
C34_Accounting ==
    next_id - 1 = Len(young_slab) + Len(old_list)
                    + gc_stats.collected_young + gc_stats.collected_old

(* ---------------------------------------------------------------- *)
(* Properties of the arena, continued                               *)
(* ---------------------------------------------------------------- *)
(* C35: restore never moves an arena cursor forward: for any savepoint     *)
(* whose captured chunk is still in the chain, the captured chunk's cursor *)
(* after restore is less than or equal to its cursor before restore.       *)
C35_RestoreNeverForward ==
    [][ (acall'.op = "restore" /\ acall'.sp.head # 0) =>
          chunks'[acall'.sp.head].top <= chunks[acall'.sp.head].top ]_vars

(* C36: a pointer returned by malloc keeps designating the same object for *)
(* as long as that object remains young: after any minor collection that   *)
(* the object survives without being promoted, mark(ptr) with the          *)
(* originally returned pointer sets the mark bit of that object's header   *)
(* and of no other header.                                                 *)
C36_PointerStable ==
    [][ (call'.op = "mark" /\ "object" \in DOMAIN call') =>
          /\ Len(young_slab') = Len(young_slab)
          /\ \A i \in DOMAIN young_slab :
               IF young_slab[i].id = call'.object
               THEN young_slab'[i] = [young_slab[i] EXCEPT !.marked = TRUE]
               ELSE young_slab'[i] = young_slab[i]
          /\ old_list' = old_list
      ]_vars

\* the statistics of an arena with a head chunk agree with its contents:
\* total_bytes is the bytes in use over the chain, and no allocation is
\* counted when no byte is in use
Tracks ==
    arena.head # 0 =>
      /\ arena.total_bytes = SumTops(Chain)
      /\ SumTops(Chain) = 0 => arena.total_allocs = 0

(* C37: the arena's allocation statistics track its contents: after any    *)
(* sequence of successful alloc calls, resets and restores with valid      *)
(* savepoints, totalBytes equals the sum over all chunks in the chain of   *)
(* top - base, and totalAllocs counts the allocations made since the last  *)
(* reset that no restore has rolled back.  Stated step by step: a          *)
(* successful alloc, a reset or a restore of an arena whose statistics     *)
(* agree with its contents leaves them in agreement.                       *)
C37_StatsTrack ==
    [][ ( /\ Tracks
          /\ \/ acall'.op = "alloc" /\ aret' # ARENA_NULL
             \/ acall'.op \in {"reset", "restore"} )
        => Tracks' ]_vars

(* ---------------------------------------------------------------- *)
(* Properties of the collector: ages and the threshold              *)
(* ---------------------------------------------------------------- *)
(* C38: in every reachable state every header in the nursery has an age    *)
(* strictly below the tenuring threshold and every node in the old list    *)
(* an age greater than or equal to it; the 8-bit age field never wraps     *)
(* around.                                                                 *)
C38_Ages ==
    /\ \A i \in DOMAIN young_slab :
         /\ young_slab[i].age >= 0
         /\ young_slab[i].age < TENURING_AGE
    /\ \A i \in DOMAIN old_list :
         /\ old_list[i].age >= TENURING_AGE
         /\ old_list[i].age + 1 < AGE_FIELD_RANGE

\* the nursery holds a survivor of one collection, and the old list an
\* object promoted on its second
C38_Witness ==
    /\ Len(young_slab) = 1
    /\ young_slab[1].age = TENURING_AGE - 1
    /\ Len(old_list) = 1
    /\ old_list[1].age = TENURING_AGE
    /\ gc_stats.promoted = 1

(* C39: within one sweep() the major-collection threshold is evaluated     *)
(* after the minor collection, against old-generation usage that already   *)
(* includes the bytes promoted by that minor collection; and an object     *)
(* promoted by that minor collection is never freed by the major           *)
(* collection of the same sweep() or collectFull() call.                   *)
C39_ThresholdAfterMinor ==
    [][ call'.op \in {"sweep", "collect_full"} =>
          LET moved == GoOld(call'.fail)
              usage == old_used + WordsOf(moved)
          IN
          /\ (call'.op = "sweep" /\ old_used <= OldThresholdWords) =>
               (MajorRan <=> usage > OldThresholdWords)
          /\ (call'.op = "sweep" /\ old_used > OldThresholdWords) => MajorRan
          /\ \A i \in DOMAIN moved :
               \E j \in DOMAIN old_list' :
                 /\ old_list'[j].id = moved[i].id
                 /\ old_list'[j].size = moved[i].size
      ]_vars

\* old_used stood exactly at the threshold and the sweep promoted one
\* object: the major collection ran and both nodes, marked, are kept
C39_Witness ==
    /\ call.op = "sweep"
    /\ gc_stats.promoted = 1
    /\ gc_stats.major_count = 1
    /\ Len(old_list) = 2
    /\ old_used = OldThresholdWords + HdrWords + AlignUpWords(Bytes(1))

====
